---- MODULE Spec2Model ----
(***************************************************************************)
(* Pragmatic auto-translator: the translation pipeline of main.js          *)
(* (handleTranslation and its collaborators) and the JINA embedding        *)
(* module (key management, callJinaAPI, createUserInputEmbedding,          *)
(* loadEmbeddingModel, isEmbeddingModelReady).                             *)
(*                                                                         *)
(* JavaScript runs each handler to completion between awaits; the model    *)
(* has one action per run-to-completion segment, i.e. one per click and    *)
(* one per network response (or timeout) that resumes a handler.           *)
(***************************************************************************)
EXTENDS Integers, Sequences, FiniteSets, TLC

\* ------------------------------------------------------------------ bounds
MaxAttempts == 2      \* clicks on the translate button per page session
MaxReloads == 1       \* page reloads
MaxKeyOps == 2        \* setJinaApiKey / storeApiKeyLocally calls per page session
MaxRanked == 3        \* length of the ranked lists handed to the budgeter alone

\* ------------------------------------------------------- program constants
MaxContextLength == 8000   \* maxContextLength passed to findSimilarContext
DIMENSIONS == 1024         \* JINA_CONFIG.DIMENSIONS, the corpus dimension

\* --------------------------------------------------------------- JS values
\* A JavaScript value is a pair <<type, content>>.
Str(s) == <<"string", s>>
NullVal == <<"null", "">>
UndefinedVal == <<"undefined", "">>

\* JavaScript truthiness of a value: null, undefined and "" are falsy.
Truthy(v) == ~(v[1] \in {"null", "undefined"} \/ v = Str(""))

\* String(v), as localStorage.setItem applies it to the value it stores.
JsString(v) ==
    IF v[1] = "string" THEN v
    ELSE IF v[1] = "null" THEN Str("null")
    ELSE IF v[1] = "undefined" THEN Str("undefined")
    ELSE Str(v[2])

\* ------------------------------------------------------------ text helpers
\* A text is a sequence of characters; " " is the only whitespace used.
RECURSIVE TrimLeft(_)
TrimLeft(t) == IF t # <<>> /\ Head(t) = " " THEN TrimLeft(Tail(t)) ELSE t

RECURSIVE TrimRight(_)
TrimRight(t) ==
    IF t # <<>> /\ t[Len(t)] = " " THEN TrimRight(SubSeq(t, 1, Len(t) - 1)) ELSE t

\* String.prototype.trim
Trim(t) == TrimRight(TrimLeft(t))

\* cleanText of utils.js: whitespace normalisation of the input text.
CleanText(t) == Trim(t)

\* An error message is a sequence of words; String.prototype.includes(p)
\* holds when p occurs in it as a contiguous run of words.
Includes(m, p) ==
    \E i \in 1..(Len(m) - Len(p) + 1) : SubSeq(m, i, i + Len(p) - 1) = p

\* ---------------------------------------------------------- error messages
ErrKeyNotAvailable == <<"JINA", "API", "key", "not", "available">>
ErrKeyRequired == <<"JINA", "API", "key", "required">>
ErrInvalidStructure == <<"Invalid", "response", "structure", "from", "JINA", "API">>
ErrNoEmbedding == <<"No", "embedding", "returned", "from", "JINA", "API">>
ErrTimeout == <<"The", "operation", "timed", "out">>
ErrInputRequired == <<"Input", "text", "is", "required">>
ErrEmptyAfterCleaning == <<"Input", "text", "is", "empty", "after", "cleaning">>
ErrDimensionMismatch == <<"DimensionMismatch">>
ErrDeepSeek == <<"DeepSeek", "API", "error">>
ErrDeepSeekTimeout == <<"DeepSeek", "API", "request", "timed", "out">>

\* The body text the provider sends with a non-2xx answer.
ErrorTexts == {<<"Unknown", "error">>}

\* `JINA API error ${response.status}: ${errorText}`
ErrJinaHttp(errorText) == <<"JINA", "API", "error">> \o errorText

\* ------------------------------------------------------------------- state
VARIABLES
    hostname,          \* window.location.hostname, a sequence of labels
    localConfigKey,    \* JINA_CONFIG.API_KEY of api-config.js (NullVal: no file)
    envVarsKey,        \* window.ENV_VARS.JINA_API_KEY (NullVal: not injected)
    API_KEY,           \* JINA_CONFIG.API_KEY, the in-memory key
    localStorage,      \* the localStorage entry 'jina_api_key' (NullVal: absent)
    lastStore,         \* history: argument of the latest storeApiKeyLocally call
    deepSeekKey,       \* whether a translation-provider key is configured
    currentSourceLang, \* 'en' or 'es'
    vectorData,        \* [documents, sections, paragraphs]
    corpusLoad,        \* "loading", "loaded" or "failed": loadCorpusData's progress
    status,            \* the status indicator
    output,            \* the translation output area and context panel
    hidden,            \* whether the status indicator has the class 'hidden'
    timers,            \* pending auto-hide timers set by showStatus
    att,               \* the handleTranslation invocations of this page session
    issued,            \* how many translate clicks this page session has had
    direct,            \* a createUserInputEmbedding call made by another consumer
    lastSearch,        \* history: the latest budgeting call, input and result
    keyOps,            \* key operations so far in this page session
    reloads            \* page reloads so far

envVars == <<hostname, localConfigKey, envVarsKey>>
keyVars == <<API_KEY, localStorage, lastStore, keyOps>>
pageVars == <<currentSourceLang, vectorData, corpusLoad>>
uiVars == <<status, output, hidden, timers>>
runVars == <<att, issued>>
vars == <<hostname, localConfigKey, envVarsKey, API_KEY, localStorage, lastStore,
          deepSeekKey, currentSourceLang, vectorData, corpusLoad, status, output,
          hidden, timers, att, issued, direct, lastSearch, keyOps, reloads>>

Attempts == 1..MaxAttempts

\* ---------------------------------------------------------- key management
Hostnames == {<<"localhost">>, <<"alamar-b", "github", "io">>}

detectEnvironment ==
    IF Includes(hostname, <<"github", "io">>) \/ Includes(hostname, <<"github", "com">>)
    THEN "github_pages"
    ELSE "local_development"

\* tryLoadLocalConfig: the default export of api-config.js, or null without
\* the file.  The module caches the result of the first import; the file does
\* not change during a page session, so the cached and the fresh value agree.
tryLoadLocalConfig == localConfigKey

\* getApiKey with localStorage never consulted.
getApiKeyNoStorage ==
    IF Truthy(API_KEY) THEN API_KEY
    ELSE IF detectEnvironment = "local_development" /\ Truthy(tryLoadLocalConfig)
    THEN tryLoadLocalConfig
    ELSE IF detectEnvironment = "github_pages" /\ Truthy(envVarsKey)
    THEN envVarsKey
    ELSE NullVal

getApiKey ==
    IF Truthy(API_KEY) THEN API_KEY
    ELSE IF detectEnvironment = "local_development" /\ Truthy(localStorage)
    THEN localStorage
    ELSE IF detectEnvironment = "local_development" /\ Truthy(tryLoadLocalConfig)
    THEN tryLoadLocalConfig
    ELSE IF detectEnvironment = "github_pages" /\ Truthy(envVarsKey)
    THEN envVarsKey
    ELSE NullVal

\* getApiKeyStatus().hasKey
hasKey == Truthy(getApiKey)

\* The guard of setJinaApiKey: the value is accepted.
ValidKey(v) == Truthy(v) /\ v[1] = "string"

\* The values the key functions are called with.
KeyInputs == {Str("k1"), Str("k2"), Str(""), NullVal}

\* ------------------------------------------------------------------ status
Status(text, detail, type, by) ==
    [text |-> text, detail |-> detail, type |-> type, by |-> by]

MsgService == "Translation service error - please check your API key"
MsgEmbedding == "Embedding server issue - check if server is running"
MsgNoContext == "No relevant context found in corpus"
MsgGeneric == "Translation failed:"
MsgEnterText == "Please enter some text to translate"
MsgKeyRequired == "DeepSeek API key required. Please set your API key."
MsgCancelled == "Translation cancelled - API key required"

\* The catch block of handleTranslation: the status shown for an error.
CatchStatus(err, by) ==
    IF Includes(err, <<"DeepSeek", "API">>)
    THEN Status(MsgService, <<>>, "error", by)
    ELSE IF Includes(err, <<"embedding", "server">>)
    THEN Status(MsgEmbedding, <<>>, "error", by)
    ELSE IF Includes(err, <<"No", "relevant", "context">>)
    THEN Status(MsgNoContext, <<>>, "error", by)
    ELSE Status(MsgGeneric, err, "error", by)

\* ------------------------------------------------------------------ corpus
Item(id, level, len) == [id |-> id, level |-> level, len |-> len]

EmptyVectorData == [documents |-> <<>>, sections |-> <<>>, paragraphs |-> <<>>]

\* What initializeCorpusLegacyFormat delivers: a corpus whose document is
\* longer than the context budget and whose paragraph fits.
Corpora ==
    { [documents |-> <<Item(1, "document", 9000)>>,
       sections |-> <<>>,
       paragraphs |-> <<Item(2, "paragraph", 3000)>>] }

AllItems(vd) == vd.documents \o vd.sections \o vd.paragraphs

\* ContextRanker: the items of the three levels merged into one list, in the
\* order of their scores.  The scores depend on the query embedding, so the
\* ranked list is any arrangement of the items.
RankedLists(vd) ==
    LET all == AllItems(vd)
    IN  { [i \in 1..Len(all) |-> all[f[i]]] : f \in Permutations(1..Len(all)) }

RECURSIVE SumLen(_)
SumLen(items) == IF items = <<>> THEN 0 ELSE Head(items).len + SumLen(Tail(items))

\* A budgeter that stops at the first item that does not fit.
RECURSIVE BudgetWalkStop(_, _, _)
BudgetWalkStop(ranked, max, total) ==
    IF ranked = <<>> \/ total + Head(ranked).len > max THEN <<>>
    ELSE <<Head(ranked)>> \o BudgetWalkStop(Tail(ranked), max, total + Head(ranked).len)

\* ContextBudgeter: walk the ranked list, keep each item that still fits.
RECURSIVE BudgetWalk(_, _, _)
BudgetWalk(ranked, max, total) ==
    IF ranked = <<>> THEN <<>>
    ELSE IF total + Head(ranked).len <= max
    THEN <<Head(ranked)>> \o BudgetWalk(Tail(ranked), max, total + Head(ranked).len)
    ELSE BudgetWalk(Tail(ranked), max, total)

BudgetStopAtFirstMiss(ranked, max) ==
    LET items == BudgetWalkStop(ranked, max, 0)
    IN  [items |-> items, totalResults |-> Len(items), contextLength |-> SumLen(items)]

Budget(ranked, max) ==
    LET items == BudgetWalk(ranked, max, 0)
    IN  [items |-> items, totalResults |-> Len(items), contextLength |-> SumLen(items)]

\* The record of a budgeting call; done is FALSE while the call is to be made.
SearchLog(ranked, max, result) ==
    [ranked |-> ranked, max |-> max, result |-> result, done |-> TRUE]

ToSearch(ranked, max) ==
    [ranked |-> ranked, max |-> max, result |-> Budget(<<>>, max), done |-> FALSE]

\* ---------------------------------------------------------------- attempts
\* No direction: no translation was requested.
NoDirection == [source |-> "none", target |-> "none"]

\* The direction whose source language is lang: lines 386-389.
DirectionOf(lang) ==
    [source |-> lang, target |-> IF lang = "en" THEN "es" ELSE "en"]

\* getCurrentLanguageDirection(): the direction of the module variable.
getCurrentLanguageDirection == DirectionOf(currentSourceLang)

IdleAttempt ==
    [pc |-> "idle", text |-> <<>>, stages |-> <<"idle">>, calls |-> <<>>,
     dim |-> 0, searched |-> FALSE, store |-> EmptyVectorData, sel |-> <<>>,
     clickLang |-> "none", dir |-> NoDirection, origin |-> "none", err |-> <<>>, shown |-> ""]

IdleDirect == [fn |-> "none", text |-> <<>>, pc |-> "idle", noKey |-> FALSE,
               sent |-> FALSE, err |-> <<>>]

NoOutput == [by |-> 0, text |-> <<>>, dir |-> NoDirection, contextUsed |-> <<>>,
             panel |-> "empty"]

\* The raw contents of the source text area.
SourceTexts == {<<>>, <<" ">>, <<"a">>, <<" ", "a">>}

\* No source holds an embedding key.
NoKeyAnywhere ==
    /\ ~Truthy(API_KEY)
    /\ ~Truthy(localStorage)
    /\ ~Truthy(localConfigKey)
    /\ ~Truthy(envVarsKey)

\* callJinaAPI, lines 168-172, with the key check dropped.
KeyGuardMissing == TRUE

\* callJinaAPI, lines 168-172: the call goes on to fetch only with a key.
KeyGuardPasses == Truthy(getApiKey)

\* fetch without a signal: the request is never aborted.
TimeoutUnarmed == FALSE

\* callJinaAPI, line 201: signal: AbortSignal.timeout(JINA_CONFIG.TIMEOUT).
TimeoutArmed == TRUE

\* The latest call of the log is settled.
Settle(calls, how) == [calls EXCEPT ![Len(calls)] = how]

\* A catch block that starts the attempt over instead of ending it.
FailedRetries(rec, err, origin, by) ==
    [rec |-> [rec EXCEPT !.pc = "ready_fetch",
                         !.stages = Append(@, "embedding_requested"),
                         !.calls = Append(@, "pending")],
     st |-> Status("Retrying...", <<>>, "loading", by)]

\* An exception reaches the catch block of handleTranslation.
Failed(rec, err, origin, by) ==
    [rec |-> [rec EXCEPT !.pc = "failed", !.stages = Append(@, "failed"),
                         !.err = err, !.origin = origin,
                         !.shown = CatchStatus(err, by).text],
     st |-> CatchStatus(err, by)]

\* handleTranslation returns early after showing an error status.
Returned(rec, msg, origin, by) ==
    [rec |-> [rec EXCEPT !.pc = "failed", !.stages = Append(@, "failed"),
                         !.origin = origin, !.shown = msg],
     st |-> Status(msg, <<>>, "error", by)]

\* handleTranslation lines 196-197: loadEmbeddingModel, up to its fetch.
StartLoad(rec, by) ==
    IF ~hasKey THEN Failed(rec, ErrKeyRequired, "credential", by)
    ELSE IF ~KeyGuardPasses THEN Failed(rec, ErrKeyNotAvailable, "credential", by)
    ELSE [rec |-> [rec EXCEPT !.pc = "load_fetch", !.calls = Append(@, "pending")],
          st |-> Status("Checking embedding API...", <<>>, "loading", by)]

\* handleTranslation lines 202-203: createUserInputEmbedding, up to its fetch.
StartEmbedding(rec, by) ==
    IF rec.text = <<>> THEN Failed(rec, ErrInputRequired, "input", by)
    ELSE IF CleanText(rec.text) = <<>>
    THEN Failed(rec, ErrEmptyAfterCleaning, "input", by)
    ELSE IF ~KeyGuardPasses THEN Failed(rec, ErrKeyNotAvailable, "credential", by)
    ELSE [rec |-> [rec EXCEPT !.pc = "embed_fetch", !.calls = Append(@, "pending")],
          st |-> Status("Creating text embedding...", <<>>, "loading", by)]

\* handleTranslation lines 194-199, resumed when the readiness fetch settles.
AfterReadyCheck(rec, ok, by) ==
    IF ok THEN StartEmbedding([rec EXCEPT !.calls = Settle(@, "ok")], by)
    ELSE StartLoad([rec EXCEPT !.calls = Settle(@, "fail")], by)

\* handleTranslation lines 224-228 aborting when nothing was found.
AbortsWithoutContext(resultCount) == resultCount > 0

\* handleTranslation lines 224-228: both branches only show a status.
ContinuesAfterSearch(resultCount) == TRUE

\* -------------------------------------------------------------------- Init
\* The page as the DOMContentLoaded handler leaves it at its first await:
\* the listeners are set up and loadCorpusData waits for the corpus.
PageStart ==
    /\ API_KEY = NullVal
    /\ currentSourceLang = "en"
    /\ vectorData = EmptyVectorData
    /\ corpusLoad = "loading"
    /\ status = Status("Loading corpus vector data...", <<>>, "loading", 0)
    /\ output = NoOutput
    /\ hidden = FALSE
    /\ timers = 0
    /\ att = [a \in Attempts |-> IdleAttempt]
    /\ issued = 0
    /\ direct = IdleDirect
    /\ keyOps = 0

\* api-config.js exists only on a developer's machine, and window.ENV_VARS is
\* injected only into the GitHub Pages build.
Init ==
    /\ hostname \in Hostnames
    /\ localConfigKey \in {NullVal, Str("kc")}
    /\ envVarsKey \in {NullVal, Str("ke")}
    /\ detectEnvironment = "local_development" => envVarsKey = NullVal
    /\ detectEnvironment = "github_pages" => localConfigKey = NullVal
    /\ localStorage = NullVal
    /\ lastStore = NullVal
    /\ deepSeekKey = FALSE
    /\ lastSearch = ToSearch(<<>>, MaxContextLength)
    /\ reloads = 0
    /\ PageStart

\* ------------------------------------------------------------ page actions
\* showStatus, lines 61-68, over the calls of one handler segment: the
\* indicator is made visible, and each call of type success sets a timer.
showStatus(successes) ==
    /\ hidden' = FALSE
    /\ timers' = timers + successes

\* The callback of a showStatus timer, lines 65-67, three seconds later.
TimerFires ==
    /\ timers > 0
    /\ timers' = timers - 1
    /\ hidden' = TRUE
    /\ UNCHANGED <<envVars, keyVars, deepSeekKey, pageVars, status, output, runVars,
                   direct, lastSearch, reloads>>

\* The language toggle's click listener.
ToggleLanguage(lang) ==
    /\ currentSourceLang' = lang
    /\ currentSourceLang # lang
    /\ UNCHANGED <<envVars, keyVars, deepSeekKey, vectorData, corpusLoad, uiVars,
                   runVars, direct, lastSearch, reloads>>

\* loadCorpusData resumes with the corpus.
CorpusLoaded(data) ==
    /\ corpusLoad = "loading"
    /\ corpusLoad' = "loaded"
    /\ vectorData' = data
    /\ status' = Status("Loaded vectors", <<>>, "success", 0)
    /\ showStatus(1)
    /\ UNCHANGED <<envVars, keyVars, deepSeekKey, currentSourceLang, output, runVars,
                   direct, lastSearch, reloads>>

\* loadCorpusData resumes with the loader's exception.
CorpusLoadFailed ==
    /\ corpusLoad = "loading"
    /\ corpusLoad' = "failed"
    /\ status' = Status("Failed to load corpus data. Translation may not work optimally.",
                        <<>>, "error", 0)
    /\ showStatus(0)
    /\ UNCHANGED <<envVars, keyVars, deepSeekKey, currentSourceLang, vectorData, output,
                   runVars, direct, lastSearch, reloads>>

\* window.setJinaApiKey(v): setJinaApiKey, then the success status.
SetJinaKey(v) ==
    /\ keyOps < MaxKeyOps
    /\ keyOps' = keyOps + 1
    /\ IF ValidKey(v)
       THEN /\ API_KEY' = v
            /\ status' = Status("JINA API key set successfully", <<>>, "success", 0)
            /\ showStatus(1)
       ELSE UNCHANGED <<API_KEY, status, hidden, timers>>
    /\ UNCHANGED <<envVars, localStorage, lastStore, deepSeekKey, pageVars, output,
                   runVars, direct, lastSearch, reloads>>

\* window.storeJinaKey(v): storeApiKeyLocally writes localStorage, then calls
\* setJinaApiKey, whose exception skips the success status.
StoreJinaKey(v) ==
    /\ keyOps < MaxKeyOps
    /\ keyOps' = keyOps + 1
    /\ localStorage' = JsString(v)
    /\ lastStore' = v
    /\ IF ValidKey(v)
       THEN /\ API_KEY' = v
            /\ status' = Status("JINA API key stored locally", <<>>, "success", 0)
            /\ showStatus(1)
       ELSE UNCHANGED <<API_KEY, status, hidden, timers>>
    /\ UNCHANGED <<envVars, deepSeekKey, pageVars, output, runVars, direct, lastSearch,
                   reloads>>

\* The page is reloaded: module state starts over, localStorage stays.
Reload ==
    /\ reloads < MaxReloads
    /\ reloads' = reloads + 1
    /\ API_KEY' = NullVal
    /\ currentSourceLang' = "en"
    /\ vectorData' = EmptyVectorData
    /\ corpusLoad' = "loading"
    /\ status' = Status("Loading corpus vector data...", <<>>, "loading", 0)
    /\ output' = NoOutput
    /\ hidden' = FALSE
    /\ timers' = 0
    /\ att' = [a \in Attempts |-> IdleAttempt]
    /\ issued' = 0
    /\ direct' = IdleDirect
    /\ keyOps' = 0
    /\ UNCHANGED <<envVars, localStorage, lastStore, deepSeekKey, lastSearch>>

\* ------------------------------------------------------- handleTranslation
\* An attempt's segment ends: its record and the status it leaves are stored.
Leave(a, r) ==
    /\ att' = [att EXCEPT ![a] = r.rec]
    /\ status' = r.st

\* handleTranslation with the check of line 187 dropped.
AcceptsAnyText(sourceText) == FALSE

\* handleTranslation, line 187: !sourceText, true of the empty string.
RejectsText(sourceText) == sourceText = <<>>

\* A click on the translate button: handleTranslation up to its first fetch.
Click(raw) ==
    /\ issued < MaxAttempts
    /\ issued' = issued + 1
    /\ LET a == issued + 1
           sourceText == Trim(raw)
           rec == [IdleAttempt EXCEPT !.text = sourceText,
                                      !.clickLang = currentSourceLang]
           req == [rec EXCEPT !.stages = Append(@, "embedding_requested")]
       IN  IF RejectsText(sourceText)
           THEN Leave(a, Returned(rec, MsgEnterText, "input", a)) /\ showStatus(0)
           ELSE IF hasKey /\ KeyGuardPasses
           THEN /\ att' = [att EXCEPT ![a] =
                        [req EXCEPT !.pc = "ready_fetch", !.calls = <<"pending">>]]
                /\ UNCHANGED <<status, hidden, timers>>
           ELSE Leave(a, StartLoad(req, a)) /\ showStatus(0)
    /\ UNCHANGED <<envVars, keyVars, deepSeekKey, pageVars, output, direct, lastSearch,
                   reloads>>

\* The fetch of isEmbeddingModelReady settles.
ReadyResponse(a, ok) ==
    /\ att[a].pc = "ready_fetch"
    /\ Leave(a, AfterReadyCheck(att[a], ok, a))
    /\ showStatus(0)
    /\ UNCHANGED <<envVars, keyVars, deepSeekKey, pageVars, output, issued, direct,
                   lastSearch, reloads>>

\* The answers of the embedding provider that make callJinaAPI throw.
JinaErrors == {ErrJinaHttp(t) : t \in ErrorTexts}

\* The fetch of loadEmbeddingModel settles: err is <<>> for a good answer.
AfterLoad(rec, err, by) ==
    IF err = <<>> THEN StartEmbedding([rec EXCEPT !.calls = Settle(@, "ok")], by)
    ELSE Failed([rec EXCEPT !.calls = Settle(@, "fail")], err, "embedding", by)

LoadResponse(a, err) ==
    /\ att[a].pc = "load_fetch"
    /\ Leave(a, AfterLoad(att[a], err, a))
    /\ showStatus(IF err = <<>> THEN 1 ELSE 0)
    /\ UNCHANGED <<envVars, keyVars, deepSeekKey, pageVars, output, issued, direct,
                   lastSearch, reloads>>

\* The dimensions an embedding answer can have.
Dimensions == {DIMENSIONS, DIMENSIONS \div 2}

\* handleTranslation lines 230-258 after the search: the translation key
\* check, the prompt when the key is missing, and the translation request.
RequestTranslation(rec, answer, by) ==
    IF ~deepSeekKey /\ answer = "cancel"
    THEN Returned(rec, MsgCancelled, "credential", by)
    ELSE [rec |-> [rec EXCEPT !.pc = "translate_fetch",
                              !.stages = Append(@, "translation_requested"),
                              !.dir = getCurrentLanguageDirection],
          st |-> Status("Translating with context...", <<>>, "loading", by)]

\* SimilarityScorer: comparing the query with a corpus vector of another
\* dimension raises DimensionMismatch; an empty store compares nothing.
ScorerThrows(dim, ranked) == dim # DIMENSIONS /\ ranked # <<>>

\* handleTranslation lines 205-258, resumed with the embedding of the text:
\* the search over vectorData, its status, and the translation request.
AfterEmbedding(rec, dim, ranked, answer, by) ==
    LET got == [rec EXCEPT !.calls = Settle(@, "ok"), !.dim = dim, !.searched = TRUE,
                           !.store = vectorData]
        sel == Budget(ranked, MaxContextLength)
        found == [got EXCEPT !.sel = sel.items,
                             !.stages = @ \o <<"context_ranked", "context_budgeted">>]
    IN  IF ScorerThrows(dim, ranked)
        THEN Failed(got, ErrDimensionMismatch, "search", by)
        ELSE IF ~ContinuesAfterSearch(sel.totalResults)
        THEN Failed(found, <<"No", "relevant", "context">>, "search", by)
        ELSE RequestTranslation(found, answer, by)

\* The success statuses of lines 204-242: 'Text vectorized successfully',
\* 'Found N relevant passages' and, after the prompt, 'API key set successfully'.
EmbeddingSuccesses(dim, ranked, answer) ==
    IF ScorerThrows(dim, ranked) THEN 1
    ELSE 1 + (IF Budget(ranked, MaxContextLength).totalResults > 0 THEN 1 ELSE 0)
           + (IF ~deepSeekKey /\ answer = "key" THEN 1 ELSE 0)

\* The fetch of createUserInputEmbedding brings an embedding.
EmbedResponse(a, dim) ==
    /\ att[a].pc = "embed_fetch"
    /\ \E ranked \in RankedLists(vectorData), answer \in {"key", "cancel"} :
         LET r == AfterEmbedding(att[a], dim, ranked, answer, a)
         IN  /\ Leave(a, r)
             /\ showStatus(EmbeddingSuccesses(dim, ranked, answer))
             /\ deepSeekKey' = (deepSeekKey \/ r.rec.pc = "translate_fetch")
             /\ lastSearch' =
                  IF ScorerThrows(dim, ranked) THEN lastSearch
                  ELSE SearchLog(ranked, MaxContextLength,
                                 Budget(ranked, MaxContextLength))
    /\ UNCHANGED <<envVars, keyVars, pageVars, output, issued, direct, reloads>>

\* The answers to the embedding request that make createUserInputEmbedding throw.
EmbedErrors == JinaErrors \cup {ErrNoEmbedding}

\* The fetch of createUserInputEmbedding fails, or its answer has no embedding.
EmbedFailure(a, err) ==
    /\ att[a].pc = "embed_fetch"
    /\ Leave(a, Failed([att[a] EXCEPT !.calls = Settle(@, "fail")], err, "embedding", a))
    /\ showStatus(0)
    /\ UNCHANGED <<envVars, keyVars, deepSeekKey, pageVars, output, issued, direct,
                   lastSearch, reloads>>

\* AbortSignal.timeout fires on a pending fetch of the embedding provider.
JinaTimeout(a) ==
    /\ TimeoutArmed
    /\ att[a].pc \in {"ready_fetch", "load_fetch", "embed_fetch"}
    /\ Leave(a, CASE att[a].pc = "ready_fetch" -> AfterReadyCheck(att[a], FALSE, a)
                  [] att[a].pc = "load_fetch" -> AfterLoad(att[a], ErrTimeout, a)
                  [] OTHER -> Failed([att[a] EXCEPT !.calls = Settle(@, "fail")],
                                     ErrTimeout, "embedding", a))
    /\ showStatus(0)
    /\ UNCHANGED <<envVars, keyVars, deepSeekKey, pageVars, output, issued, direct,
                   lastSearch, reloads>>

\* updateTranslationOutput(translatedText, contextUsed)
updateTranslationOutput(by, text, dir, contextUsed) ==
    [by |-> by, text |-> text, dir |-> dir, contextUsed |-> contextUsed,
     panel |-> IF Len(contextUsed) > 0 THEN "sources" ELSE "no context found"]

\* translateWithContext answers: lines 260-267.
TranslateResponse(a) ==
    /\ att[a].pc = "translate_fetch"
    /\ att' = [att EXCEPT ![a] = [@ EXCEPT !.pc = "completed",
                                           !.stages = Append(@, "completed")]]
    /\ status' = Status("Translation completed successfully!", <<>>, "success", a)
    /\ showStatus(1)
    /\ output' = updateTranslationOutput(a, att[a].text, att[a].dir, att[a].sel)
    /\ UNCHANGED <<envVars, keyVars, deepSeekKey, pageVars, issued, direct, lastSearch,
                   reloads>>

\* translateWithContext throws: the provider refused or failed.
TranslateFailure(a) ==
    /\ att[a].pc = "translate_fetch"
    /\ Leave(a, Failed(att[a], ErrDeepSeek, "translation", a))
    /\ showStatus(0)
    /\ UNCHANGED <<envVars, keyVars, deepSeekKey, pageVars, output, issued, direct,
                   lastSearch, reloads>>

\* The per-call timeout of the translation request fires.
TranslateTimeout(a) ==
    /\ att[a].pc = "translate_fetch"
    /\ Leave(a, Failed(att[a], ErrDeepSeekTimeout, "translation", a))
    /\ showStatus(0)
    /\ UNCHANGED <<envVars, keyVars, deepSeekKey, pageVars, output, issued, direct,
                   lastSearch, reloads>>

\* ------------------------------------------- the embedding module's exports
ExportedCalls == {"createUserInputEmbedding", "loadEmbeddingModel", "isEmbeddingModelReady"}

Threw(fn, text, err) ==
    [fn |-> fn, text |-> text, pc |-> "threw", noKey |-> NoKeyAnywhere,
     sent |-> FALSE, err |-> err]

Fetching(fn, text) ==
    [fn |-> fn, text |-> text, pc |-> "fetch", noKey |-> NoKeyAnywhere,
     sent |-> TRUE, err |-> <<>>]

\* createUserInputEmbedding(text), up to its fetch.
createUserInputEmbedding(text) ==
    IF text = <<>> THEN Threw("createUserInputEmbedding", text, ErrInputRequired)
    ELSE IF CleanText(text) = <<>>
    THEN Threw("createUserInputEmbedding", text, ErrEmptyAfterCleaning)
    ELSE IF ~KeyGuardPasses
    THEN Threw("createUserInputEmbedding", text, ErrKeyNotAvailable)
    ELSE Fetching("createUserInputEmbedding", text)

\* loadEmbeddingModel(), up to its fetch.
loadEmbeddingModel ==
    IF ~hasKey THEN Threw("loadEmbeddingModel", <<>>, ErrKeyRequired)
    ELSE IF ~KeyGuardPasses THEN Threw("loadEmbeddingModel", <<>>, ErrKeyNotAvailable)
    ELSE Fetching("loadEmbeddingModel", <<>>)

\* isEmbeddingModelReady(), up to its fetch: false without a key, and false
\* when callJinaAPI throws.
isEmbeddingModelReady ==
    IF ~hasKey \/ ~KeyGuardPasses
    THEN [fn |-> "isEmbeddingModelReady", text |-> <<>>, pc |-> "returned false",
          noKey |-> NoKeyAnywhere, sent |-> FALSE, err |-> <<>>]
    ELSE Fetching("isEmbeddingModelReady", <<>>)

\* An exported function of the embedding module is called by a consumer
\* other than handleTranslation (window.PragmaticTranslator, another module).
DirectCall(fn, text) ==
    /\ direct.pc # "fetch"
    /\ direct' = CASE fn = "createUserInputEmbedding" -> createUserInputEmbedding(text)
                   [] fn = "loadEmbeddingModel" -> loadEmbeddingModel
                   [] OTHER -> isEmbeddingModelReady
    /\ UNCHANGED <<envVars, keyVars, deepSeekKey, pageVars, uiVars, runVars, lastSearch,
                   reloads>>

\* How an exported call ends once its fetch has settled with err
\* (<<>>: a good answer).
Settled(d, err) ==
    IF d.fn = "isEmbeddingModelReady"
    THEN [d EXCEPT !.pc = IF err = <<>> THEN "returned true" ELSE "returned false"]
    ELSE IF err = <<>> THEN [d EXCEPT !.pc = "returned"]
    ELSE [d EXCEPT !.pc = "threw", !.err = err]

\* Its fetch settles.
DirectResponse(err) ==
    /\ direct.pc = "fetch"
    /\ err = ErrNoEmbedding => direct.fn = "createUserInputEmbedding"
    /\ direct' = Settled(direct, err)
    /\ UNCHANGED <<envVars, keyVars, deepSeekKey, pageVars, uiVars, runVars, lastSearch,
                   reloads>>

\* AbortSignal.timeout fires on its fetch.
DirectTimeout ==
    /\ TimeoutArmed
    /\ direct.pc = "fetch"
    /\ direct' = Settled(direct, ErrTimeout)
    /\ UNCHANGED <<envVars, keyVars, deepSeekKey, pageVars, uiVars, runVars, lastSearch,
                   reloads>>

\* ------------------------------------------------------ the budgeter alone
\* The text lengths and the budgets the budgeter is tried on.
Lengths == {0, 10, 20, 50}
Budgets == {0, 20, 30, 60}

\* The ranked lists of at most MaxRanked items, each item's id its rank.
RankedInputs ==
    UNION { { [i \in 1..n |-> Item(i, "paragraph", f[i])] : f \in [1..n -> Lengths] }
            : n \in 0..MaxRanked }

\* A page whose next budgeting call has the given ranked list and budget.
BudgetInit ==
    /\ hostname \in Hostnames
    /\ localConfigKey = NullVal
    /\ envVarsKey = NullVal
    /\ localStorage = NullVal
    /\ lastStore = NullVal
    /\ deepSeekKey = FALSE
    /\ lastSearch \in {ToSearch(ranked, max) : ranked \in RankedInputs, max \in Budgets}
    /\ reloads = 0
    /\ PageStart

\* findSimilarContext budgets the ranked list.
BudgetCall ==
    /\ ~lastSearch.done
    /\ lastSearch' = SearchLog(lastSearch.ranked, lastSearch.max,
                               Budget(lastSearch.ranked, lastSearch.max))
    /\ UNCHANGED <<envVars, keyVars, deepSeekKey, pageVars, uiVars, runVars, direct,
                   reloads>>

\* -------------------------------------------------------------------- Next
\* The translation pipeline of one page session.
Next ==
    \/ \E data \in Corpora : CorpusLoaded(data)
    \/ CorpusLoadFailed
    \/ \E raw \in SourceTexts : Click(raw)
    \/ \E a \in Attempts, ok \in BOOLEAN : ReadyResponse(a, ok)
    \/ \E a \in Attempts, err \in JinaErrors \cup {<<>>} : LoadResponse(a, err)
    \/ \E a \in Attempts, dim \in Dimensions : EmbedResponse(a, dim)
    \/ \E a \in Attempts, err \in EmbedErrors : EmbedFailure(a, err)
    \/ \E a \in Attempts : JinaTimeout(a)
    \/ \E a \in Attempts : TranslateResponse(a)
    \/ \E a \in Attempts : TranslateFailure(a)
    \/ \E a \in Attempts : TranslateTimeout(a)

Spec == Init /\ [][Next]_vars

\* The pipeline with the language toggle in use.
ToggleNext ==
    \/ Next
    \/ \E lang \in {"en", "es"} : ToggleLanguage(lang)

ToggleSpec == Init /\ [][ToggleNext]_vars

\* The pipeline with the auto-hide timers of the status indicator firing.
StatusNext ==
    \/ Next
    \/ TimerFires

StatusSpec == Init /\ [][StatusNext]_vars

\* The key functions of the embedding module, across page reloads.
KeyNext ==
    \/ \E v \in KeyInputs : SetJinaKey(v)
    \/ \E v \in KeyInputs : StoreJinaKey(v)
    \/ Reload
    \/ \E fn \in ExportedCalls, text \in SourceTexts : DirectCall(fn, text)
    \/ \E err \in EmbedErrors \cup {ErrInvalidStructure, <<>>} : DirectResponse(err)
    \/ DirectTimeout

KeySpec == Init /\ [][KeyNext]_vars

\* The budgeter on its own inputs.
BudgetNext == BudgetCall

BudgetSpec == BudgetInit /\ [][BudgetNext]_vars

\* The pipeline with the timers of its network requests firing: a pending
\* fetch whose AbortSignal.timeout is armed is aborted when the time is up.
LiveSpec ==
    /\ Spec
    /\ \A a \in Attempts : WF_vars(JinaTimeout(a)) /\ WF_vars(TranslateTimeout(a))

\* ================================================================== claims
Terminal == {"completed", "failed"}

Finished(a) == att[a].pc \in Terminal

StageOrder ==
    <<"idle", "embedding_requested", "context_ranked", "context_budgeted",
      "translation_requested">>

IsPrefix(s, t) == Len(s) <= Len(t) /\ SubSeq(t, 1, Len(s)) = s

Stages(a) == {att[a].stages[i] : i \in 1..Len(att[a].stages)}

\* C1: once two or more requests were issued and all of them have finished
\* with a translation, the output area and the status written by a request
\* are those of the most recently issued request: no earlier request's
\* response has overwritten the later request's result.
C1_LatestRequestWins ==
    (issued >= 2 /\ \A a \in 1..issued : att[a].pc = "completed") =>
        /\ output.by = issued
        /\ status.by # 0 => status.by = issued

\* C2: the stages an attempt has entered are an initial part of the linear
\* order idle, embedding requested, context ranked, context budgeted,
\* translation requested, followed by one terminal state once the attempt
\* has ended; completed comes only after all five stages.
C2_LinearStages ==
    \A a \in Attempts :
        LET st == att[a].stages
            n == Len(st)
        IN  /\ n >= 1
            /\ IF Finished(a)
               THEN st[n] = att[a].pc /\ IsPrefix(SubSeq(st, 1, n - 1), StageOrder)
               ELSE IsPrefix(st, StageOrder)
            /\ att[a].pc = "completed" => SubSeq(st, 1, n - 1) = StageOrder

C2_Witness ==
    \E a \in Attempts :
        /\ att[a].pc = "completed"
        /\ att[a].stages = Append(StageOrder, "completed")
        /\ \E b \in Attempts : att[b].pc = "failed" /\ Len(att[b].stages) > 2

\* C3: a failed attempt shows the message of the stage its failure came
\* from: the embedding message for the embedding stage, the translation
\* service message for the translation provider, a message naming the key
\* for a missing credential, and never the generic message for a failure of
\* the embedding stage or of the translation provider.
C3_StageSpecificMessage ==
    \A a \in Attempts :
        att[a].pc = "failed" =>
            /\ att[a].origin = "embedding" => att[a].shown = MsgEmbedding
            /\ att[a].origin = "translation" => att[a].shown = MsgService
            /\ att[a].origin = "credential" =>
                   \/ att[a].shown \in {MsgCancelled, MsgKeyRequired}
                   \/ Includes(att[a].err, <<"API", "key">>)
            /\ att[a].origin \in {"embedding", "translation"} =>
                   att[a].shown # MsgGeneric

\* C4: every attempt that has started eventually ends, completed or failed,
\* also when a provider never answers: the timeout of the pending request
\* ends it as failed.
C4_EveryAttemptEnds ==
    \A a \in Attempts : (att[a].pc # "idle") ~> Finished(a)

C4_Witness ==
    \E a \in Attempts :
        /\ att[a].pc = "failed"
        /\ att[a].err = ErrTimeout
        /\ att[a].origin = "embedding"

\* C5: an attempt whose search selected no context is not aborted by that:
\* it goes on to the translation request, fails only at the translation key
\* or the translation provider, and when it completes the result is rendered
\* with an empty context list.
C5_TranslatesWithoutContext ==
    \A a \in Attempts :
        ("context_budgeted" \in Stages(a) /\ att[a].sel = <<>>) =>
            /\ \/ att[a].pc \in {"translate_fetch", "completed"}
               \/ att[a].pc = "failed" /\ att[a].origin \in {"translation", "credential"}
            /\ (att[a].pc = "completed" /\ output.by = a) =>
                   output.contextUsed = <<>> /\ output.panel = "no context found"

C5_Witness ==
    \E a \in Attempts :
        /\ att[a].pc = "completed"
        /\ att[a].searched
        /\ att[a].sel = <<>>
        /\ output.by = a
        /\ output.contextUsed = <<>>

\* C6: a call of the embedding module made while no source holds a key
\* sends no HTTP request; createUserInputEmbedding (given a text) and
\* loadEmbeddingModel throw an error that says the key is missing, and
\* isEmbeddingModelReady answers false.
C6_NoKeyNoRequest ==
    (direct.pc # "idle" /\ direct.noKey) =>
        /\ ~direct.sent
        /\ direct.pc # "fetch"
        /\ (direct.fn = "createUserInputEmbedding" /\ CleanText(direct.text) # <<>>) =>
               direct.pc = "threw" /\ direct.err = ErrKeyNotAvailable
        /\ direct.fn = "loadEmbeddingModel" =>
               direct.pc = "threw" /\ direct.err \in {ErrKeyRequired, ErrKeyNotAvailable}
        /\ direct.fn = "isEmbeddingModelReady" => direct.pc = "returned false"

C6_Witness ==
    /\ direct.fn = "createUserInputEmbedding"
    /\ direct.noKey
    /\ direct.pc = "threw"
    /\ direct.err = ErrKeyNotAvailable
    /\ ~direct.sent

\* The page was reloaded after the latest storeApiKeyLocally call, which
\* stored a valid key, and no key has been set in memory since.
ReloadedAfterStore == reloads > 0 /\ API_KEY = NullVal /\ ValidKey(lastStore)

\* C7 as claimed: after storeApiKeyLocally(k) with a valid k and a reload,
\* getApiKey returns k, whatever the environment.
C7_StoredKeySurvivesReload == ReloadedAfterStore => getApiKey = lastStore

\* C7 as amended: after storeApiKeyLocally(k) with a valid k and a reload,
\* getApiKey returns k in the local development environment.
C7_StoredKeySurvivesReloadLocally ==
    (ReloadedAfterStore /\ detectEnvironment = "local_development") =>
        getApiKey = lastStore

C7_Witness ==
    /\ ReloadedAfterStore
    /\ detectEnvironment = "local_development"
    /\ localConfigKey # NullVal
    /\ getApiKey = lastStore

\* C8: once a call to the embedding provider has failed in an attempt, the
\* attempt issues no further call to the embedding provider.
C8_NoCallAfterFailure ==
    \A a \in Attempts :
        \A i \in 1..Len(att[a].calls) :
            att[a].calls[i] = "fail" => i = Len(att[a].calls)

\* C9: an attempt whose embedding has another length than the corpus
\* dimension fails with a dimension-mismatch error, and neither searches the
\* corpus nor requests a translation with that vector.
C9_DimensionMismatchIsHard ==
    \A a \in Attempts :
        (att[a].dim # 0 /\ att[a].dim # DIMENSIONS) =>
            /\ att[a].pc = "failed"
            /\ att[a].err = ErrDimensionMismatch
            /\ ~att[a].searched
            /\ "translation_requested" \notin Stages(a)

\* The ranks of the items the latest budgeting call included.
Included == {it.id : it \in {lastSearch.result.items[j] :
                                j \in 1..Len(lastSearch.result.items)}}

\* The text length of the included items ranked before rank i.
RECURSIVE IncludedBefore(_)
IncludedBefore(i) ==
    IF i <= 1 THEN 0
    ELSE IncludedBefore(i - 1)
         + (IF (i - 1) \in Included THEN lastSearch.ranked[i - 1].len ELSE 0)

\* C10: the selection holds exactly the items that fit when the ranked list
\* is walked in order (an item is included iff its length added to the
\* length of the items included before it stays within the budget, also
\* after an item was skipped), in ranked order; totalResults is their count,
\* contextLength the sum of their lengths, within the budget.
C10_BudgetIsGreedyWalk ==
    LET ranked == lastSearch.ranked
        max == lastSearch.max
        res == lastSearch.result
        n == Len(res.items)
    IN  lastSearch.done =>
        /\ \A i \in 1..Len(ranked) :
               i \in Included <=> IncludedBefore(i) + ranked[i].len <= max
        /\ \A j \in 1..n : \E i \in 1..Len(ranked) : res.items[j] = ranked[i]
        /\ \A j, k \in 1..n : j < k => res.items[j].id < res.items[k].id
        /\ res.totalResults = n
        /\ res.contextLength = IncludedBefore(Len(ranked) + 1)
        /\ res.contextLength <= max

\* A first item too long for the budget was skipped and a later one included.
C10_Witness ==
    /\ lastSearch.done
    /\ Len(lastSearch.ranked) >= 2
    /\ lastSearch.ranked[1].len > lastSearch.max
    /\ lastSearch.result.totalResults >= 1
    /\ lastSearch.result.items[1] = lastSearch.ranked[2]

\* C11: the vector store is written at most once per page session, by the
\* corpus load that fills the initial empty store, and by no other step (a
\* translation attempt, a language toggle, a failed corpus load); and once
\* the load has populated the store, every search a translation attempt has
\* made was a search of the store as that load populated it.
C11_StorePopulatedOnce ==
    /\ [][vectorData' # vectorData =>
             /\ corpusLoad = "loading"
             /\ corpusLoad' = "loaded"
             /\ vectorData = EmptyVectorData]_vars
    /\ [](\A a \in Attempts :
             (att[a].searched /\ corpusLoad = "loaded") => att[a].store = vectorData)

\* C12: a translate click whose source text is empty or only whitespace is
\* rejected in the click's own step with the error status 'Please enter some
\* text to translate': the attempt has failed without a call to the embedding
\* provider, a context search or a translation request, and the step leaves
\* the output area, the vector store, the language direction and the stored
\* credentials as they were.
C12_EmptyInputRejected ==
    [][\A a \in Attempts :
         (att[a].pc = "idle" /\ att'[a].pc # "idle" /\ att'[a].text = <<>>) =>
            /\ att'[a].pc = "failed"
            /\ att'[a].stages = <<"idle", "failed">>
            /\ att'[a].calls = <<>>
            /\ ~att'[a].searched
            /\ status' = Status(MsgEnterText, <<>>, "error", a)
            /\ ~hidden'
            /\ UNCHANGED <<output, vectorData, corpusLoad, currentSourceLang,
                           API_KEY, localStorage, deepSeekKey, lastSearch>>]_vars

\* An empty text was rejected on a page that shows an earlier translation.
C12_Witness ==
    \E a \in Attempts :
        /\ att[a].pc = "failed"
        /\ att[a].text = <<>>
        /\ att[a].calls = <<>>
        /\ status = Status(MsgEnterText, <<>>, "error", a)
        /\ output.by # 0
        /\ output.by # a

\* C13: a translation is requested in the direction selected when the
\* translate button was clicked, whatever the language toggle did while the
\* attempt was pending; and the source and target languages of every request
\* are distinct members of {en, es}.
C13_DirectionOfTheClick ==
    \A a \in Attempts :
        "translation_requested" \in Stages(a) =>
            /\ att[a].dir.source = att[a].clickLang
            /\ att[a].dir.source \in {"en", "es"}
            /\ att[a].dir.target \in {"en", "es"}
            /\ att[a].dir.source # att[a].dir.target

\* C14: only success statuses are auto-hidden: while the status indicator
\* holds a status of type error or loading it is visible, whatever timers
\* earlier success statuses have set.
C14_OnlySuccessIsHidden ==
    status.type \in {"error", "loading"} => ~hidden

\* The keys setJinaApiKey accepts among the values the key functions are
\* called with, and the keys configured outside the page.
AcceptedKeys == {v \in KeyInputs : ValidKey(v)}

ConfiguredKeys == {k \in {localConfigKey, envVarsKey} : Truthy(k)}

\* C15: storing an invalid key changes nothing: the localStorage entry is
\* absent or a key that was accepted as valid, the in-memory key is unset or
\* an accepted key, and the key getApiKey returns is null, a configured key
\* or a key that was accepted as valid.
C15_InvalidStoreChangesNothing ==
    /\ localStorage \in {NullVal} \cup AcceptedKeys
    /\ API_KEY \in {NullVal} \cup AcceptedKeys
    /\ getApiKey \in {NullVal} \cup AcceptedKeys \cup ConfiguredKeys

====
